---- MODULE Spec2Model ----
(***************************************************************************)
(* Model of the Hotspot backend (src/main.py): a FastAPI facade over two   *)
(* tables of an external store, photos and votes, and one storage bucket.  *)
(*                                                                         *)
(* Spec      : requests are served one at a time; every handler is one     *)
(*             atomic action (no interleaving, no store failure).          *)
(* HistSpec  : as Spec, for the documented vote types only, remembering    *)
(*             the last two requests.                                      *)
(* ListSpec  : as Spec, for the documented vote types only, with the two   *)
(*             listing handlers.                                           *)
(* FailSpec  : as Spec, for the documented vote types only, where a call   *)
(*             of vote_photo to the store may fail.                        *)
(* ImmSpec   : uploads and votes under the immutable-vote policy of the    *)
(*             earlier revisions, which are not part of src/main.py.       *)
(* ConcSpec  : two workers serve POST /vote concurrently; every round trip *)
(*             to the store is one step.                                   *)
(*                                                                         *)
(* Columns that no handler computes with (image_url, title, description,   *)
(* latitude, longitude, created_at) are left out of the photo rows.        *)
(***************************************************************************)
EXTENDS Integers, FiniteSets, Sequences, TLC

VARIABLES
    photos,   \* table "photos": function from the ids of the rows to the rows
    votes,    \* table "votes": set of rows [user_id, photo_id, vote_type]
    bucket,   \* bucket "hotspot_photos": set of stored object names
    last,     \* the request served last and its response
    prev,     \* the request served before that one
    pc,       \* ConcSpec: position of each worker inside vote_photo
    req,      \* ConcSpec: the VoteRequest each worker is serving
    loc,      \* ConcSpec: locals existing_vote_type, up, down of each worker
    nreq,     \* ConcSpec: number of requests accepted so far
    bothRead, \* ConcSpec: both workers have read the same counters of the
              \* same photo, for different users, and neither has written
    sawSame,  \* ConcSpec: "both" when both workers have read the same up or
              \* down vote of one pair and neither has written, "late" when
              \* one of them then read the counters the other had written
    nfail     \* FailSpec: number of store calls that have failed

vars ==
    <<photos, votes, bucket, last, prev, pc, req, loc, nreq, bothRead, sawSame,
      nfail>>

store == <<photos, votes, bucket>>

----------------------------------------------------------------------------
(* Bounds and input sets *)

Users == {"u1", "u2"}

\* the user who uploads
Uploaders == {"u1"}

\* ids the store hands out to inserted photo rows, in this order
PhotoIdSeq == <<"p1", "p2">>

PhotoIds == {PhotoIdSeq[i] : i \in 1..Len(PhotoIdSeq)}

\* an id that matches no photo row, ever
MissingId == "p0"

Locations == {"The Pit"}

\* location_name of a listing: a location with photos and one without
ListLocations == Locations \cup {"Quad"}

\* the documented values of VoteRequest.vote_type
DocVoteTypes == {"up", "down", "none"}

\* VoteRequest.vote_type is any str: the three documented values, the empty
\* string and one undocumented value
VoteTypes == DocVoteTypes \cup {"", "meh"}

\* UploadFile.filename: absent or present
Filenames == {"", "a.jpg"}

Workers == {"w1", "w2"}

\* ConcSpec: number of vote requests accepted in one behaviour
MaxReq == 2

\* FailSpec: number of store failures in one behaviour
MaxFail == 1

----------------------------------------------------------------------------
(* Python values *)

\* Python's None, as the value of existing_vote_type
None == "<None>"

\* the elements of a list
Range(q) == {q[i] : i \in 1..Len(q)}

\* truth value of an Optional[str]: None and "" are false
Truthy(x) == x /= None /\ x /= ""

\* viewer_id of a listing: absent, empty or a user
Viewers == Users \cup {None, ""}

----------------------------------------------------------------------------
(* The store *)

SameKey(v, u, p) == v.user_id = u /\ v.photo_id = p

\* select * from votes where user_id = u and photo_id = p
SelectVotes(vs, u, p) == {v \in vs : SameKey(v, u, p)}

\* existing_data[0]["vote_type"] if existing_data else None
ExistingVoteType(vs, u, p) ==
    LET existing_data == SelectVotes(vs, u, p)
    IN  IF existing_data = {} THEN None
        ELSE (CHOOSE v \in existing_data : TRUE).vote_type

\* variant: the filter on user_id is missing
DeleteVoteAnyUser(vs, u, p) == {v \in vs : v.photo_id /= p}

\* delete from votes where user_id = u and photo_id = p
DeleteVote(vs, u, p) == {v \in vs : ~SameKey(v, u, p)}

\* variant: a plain insert, the row with the same key stays
UpsertInsert(vs, u, p, t) ==
    vs \cup {[user_id |-> u, photo_id |-> p, vote_type |-> t]}

\* upsert(vote_data, on_conflict="user_id, photo_id"): the row with the same
\* key is replaced, otherwise the row is inserted
Upsert(vs, u, p, t) ==
    {v \in vs : ~SameKey(v, u, p)}
        \cup {[user_id |-> u, photo_id |-> p, vote_type |-> t]}

\* variant: the counters are recounted from the votes table by the store
UpdatePhotoRecount(ph, p, up, down) ==
    IF p \in DOMAIN ph
    THEN [ph EXCEPT
            ![p].upvotes = Cardinality({v \in votes :
                               v.photo_id = p /\ v.vote_type = "up"}),
            ![p].downvotes = Cardinality({v \in votes :
                               v.photo_id = p /\ v.vote_type = "down"})]
    ELSE ph

\* update photos set upvotes = up, downvotes = down where id = p
UpdatePhoto(ph, p, up, down) ==
    IF p \in DOMAIN ph
    THEN [ph EXCEPT ![p].upvotes = up, ![p].downvotes = down]
    ELSE ph

\* insert into photos: the row gets a fresh id and the column defaults of
\* the counters
InsertPhoto(ph, id, u, l) ==
    [q \in DOMAIN ph \cup {id} |->
        IF q = id
        THEN [user_id |-> u, location_name |-> l, upvotes |-> 0, downvotes |-> 0]
        ELSE ph[q]]

----------------------------------------------------------------------------
(* vote_photo: the computation of the counters *)

\* variant: the down branch is missing
UndoUpOnly(existing, c) ==
    IF existing = "up" THEN [up |-> c.up - 1, down |-> c.down] ELSE c

\* variant: the up branch is an else
UndoElseUp(existing, c) ==
    IF existing = "down" THEN [up |-> c.up, down |-> c.down - 1]
    ELSE [up |-> c.up - 1, down |-> c.down]

\* variant: a counter is never taken below 0
UndoFloor(existing, c) ==
    IF existing = "up" /\ c.up > 0 THEN [up |-> c.up - 1, down |-> c.down]
    ELSE IF existing = "down" /\ c.down > 0
         THEN [up |-> c.up, down |-> c.down - 1]
    ELSE c

\* undo the contribution of the existing vote
Undo(existing, c) ==
    IF existing = "up" THEN [up |-> c.up - 1, down |-> c.down]
    ELSE IF existing = "down" THEN [up |-> c.up, down |-> c.down - 1]
    ELSE c

\* variant: the two counters are swapped
ApplySwapped(t, c) ==
    IF t = "up" THEN [up |-> c.up, down |-> c.down + 1]
    ELSE IF t = "down" THEN [up |-> c.up + 1, down |-> c.down]
    ELSE c

\* apply the contribution of the requested vote
Apply(t, c) ==
    IF t = "up" THEN [up |-> c.up + 1, down |-> c.down]
    ELSE IF t = "down" THEN [up |-> c.up, down |-> c.down + 1]
    ELSE c

\* variant: case A leaves the counters alone
ComputeNoneKeeps(t, existing, c) ==
    IF t = "none" THEN c ELSE Apply(t, Undo(existing, c))

\* variant: case B does not undo the existing vote
ComputeNoUndo(t, existing, c) ==
    IF t = "none" THEN Undo(existing, c) ELSE Apply(t, c)

\* lines 220-242: case A (none) undoes, case B undoes and applies
Compute(t, existing, c) ==
    IF t = "none" THEN Undo(existing, c) ELSE Apply(t, Undo(existing, c))

\* variant: case A never deletes
WriteVoteNoDelete(vs, u, p, t, existing) ==
    IF t = "none" THEN vs ELSE Upsert(vs, u, p, t)

\* lines 227-230 and 244-251: the write to the votes table
WriteVote(vs, u, p, t, existing) ==
    IF t = "none"
    THEN IF Truthy(existing) THEN DeleteVote(vs, u, p) ELSE vs
    ELSE Upsert(vs, u, p, t)

\* variant: case A always issues the delete
WriteVoteCallsAlwaysDelete(t, existing) ==
    IF t = "none" THEN <<"votes.delete">> ELSE <<"votes.upsert">>

\* lines 227-230 and 244-251: the call made to the votes table, if any
WriteVoteCalls(t, existing) ==
    IF t = "none"
    THEN IF Truthy(existing) THEN <<"votes.delete">> ELSE <<>>
    ELSE <<"votes.upsert">>

\* except Exception as e: raise HTTPException(status_code=500, ...)
\* HTTPException is an Exception, so the handler's own 4xx is caught too
ExceptHandler(raised) == 500

----------------------------------------------------------------------------
(* vote_photo as a function of the store: one request served alone *)

Counters(ph, p) == [up |-> ph[p].upvotes, down |-> ph[p].downvotes]

\* variant: the photo is looked up after the vote row is written
vote_photo_WriteFirst(ph, vs, u, p, t) ==
    LET existing == ExistingVoteType(vs, u, p)
        c0 == IF p \in DOMAIN ph THEN Counters(ph, p) ELSE [up |-> 0, down |-> 0]
        c  == Compute(t, existing, c0)
        ok == p \in DOMAIN ph
    IN  [photos |-> UpdatePhoto(ph, p, c.up, c.down),
         votes  |-> WriteVote(vs, u, p, t, existing),
         raised |-> IF ok THEN 0 ELSE 404,
         status |-> IF ok THEN 200 ELSE ExceptHandler(404),
         existing |-> existing,
         up0 |-> c0.up, down0 |-> c0.down,
         new_up |-> IF ok THEN c.up ELSE 0, new_down |-> IF ok THEN c.down ELSE 0,
         result |-> IF ok THEN "success" ELSE "",
         vote |-> IF ok THEN t ELSE "",
         calls |-> <<"votes.select">> \o WriteVoteCalls(t, existing)
                      \o <<"photos.select">>
                      \o (IF ok THEN <<"photos.update">> ELSE <<>>)]

vote_photo(ph, vs, u, p, t) ==
    LET existing == ExistingVoteType(vs, u, p)
    IN  IF p \notin DOMAIN ph
        THEN \* raise HTTPException(status_code=404), inside the try
             [photos |-> ph, votes |-> vs,
              raised |-> 404, status |-> ExceptHandler(404),
              existing |-> existing,
              up0 |-> 0, down0 |-> 0, new_up |-> 0, new_down |-> 0,
              result |-> "", vote |-> "",
              calls |-> <<"votes.select", "photos.select">>]
        ELSE LET c0 == Counters(ph, p)
                 c  == Compute(t, existing, c0)
             IN  [photos |-> UpdatePhoto(ph, p, c.up, c.down),
                  votes  |-> WriteVote(vs, u, p, t, existing),
                  raised |-> 0, status |-> 200,
                  existing |-> existing,
                  up0 |-> c0.up, down0 |-> c0.down,
                  new_up |-> c.up, new_down |-> c.down,
                  \* lines 258-263: the response body
                  result |-> "success", vote |-> t,
                  calls |-> <<"votes.select", "photos.select">>
                               \o WriteVoteCalls(t, existing)
                               \o <<"photos.update">>]

----------------------------------------------------------------------------
(* Initial states *)

\* a served request and its response: the request (op, user_id, photo_id,
\* vote_type, location_name, viewer_id), what the handler read (existing,
\* up0, down0), the store calls it made (calls), the call that failed
\* (failed, "" when none), the status raised inside the try (raised), the
\* HTTP status (status) and the response body (result, vote, new_up,
\* new_down, body)
NoOp ==
    [op |-> "init", user_id |-> "", photo_id |-> "", vote_type |-> "",
     location_name |-> "", viewer_id |-> None,
     raised |-> 0, status |-> 0, existing |-> None,
     up0 |-> 0, down0 |-> 0, new_up |-> 0, new_down |-> 0,
     result |-> "", vote |-> "", calls |-> <<>>, failed |-> "", body |-> <<>>]

NoReq == [user_id |-> "", photo_id |-> "", vote_type |-> ""]

NoLoc == [existing |-> None, up |-> 0, down |-> 0, status |-> 0]

\* a vote row of u1 left behind for a photo whose row was removed outside
\* the service (the service itself never deletes a photo); u2 has none
OrphanVotes ==
    {[user_id |-> "u1", photo_id |-> MissingId, vote_type |-> "up"]}

IdleWorkers ==
    /\ pc = [w \in Workers |-> "idle"]
    /\ req = [w \in Workers |-> NoReq]
    /\ loc = [w \in Workers |-> NoLoc]
    /\ nreq = 0
    /\ bothRead = FALSE
    /\ sawSame = "no"
    /\ nfail = 0

Init ==
    /\ photos = [q \in {} |-> 0]
    /\ votes = OrphanVotes
    /\ bucket = {}
    /\ last = NoOp
    /\ prev = NoOp
    /\ IdleWorkers

----------------------------------------------------------------------------------------------------------------------------------------
(* The handlers, one request at a time *)

Workers0 == <<pc, req, loc, nreq, bothRead, sawSame>>

SeqFrame == UNCHANGED <<Workers0, nfail>>

\* GET /
HealthCheck ==
    /\ last' = [NoOp EXCEPT !.op = "health", !.status = 200, !.result = "ok"]
    /\ UNCHANGED store
    /\ SeqFrame

\* the id the store gives to the next inserted photo row
NextId(ph) == PhotoIdSeq[Cardinality(DOMAIN ph) + 1]

\* POST /upload
UploadPhoto(u, l, f) ==
    /\ SeqFrame
    /\ IF f = ""
       THEN \* raise HTTPException(status_code=400), inside the try
            /\ last' = [NoOp EXCEPT !.op = "upload", !.user_id = u,
                                    !.raised = 400,
                                    !.status = ExceptHandler(400)]
            /\ UNCHANGED store
       ELSE /\ Cardinality(DOMAIN photos) < Len(PhotoIdSeq)
            /\ bucket' = bucket \cup {Cardinality(bucket) + 1}
            /\ photos' = InsertPhoto(photos, NextId(photos), u, l)
            /\ votes' = votes
            /\ last' = [NoOp EXCEPT !.op = "upload", !.user_id = u,
                                    !.location_name = l,
                                    !.photo_id = NextId(photos),
                                    !.status = 200,
                                    !.result = "success",
                                    !.calls = <<"storage.upload",
                                                "photos.insert">>,
                                    !.new_up = photos'[NextId(photos)].upvotes,
                                    !.new_down = photos'[NextId(photos)].downvotes]

\* POST /vote
VotePhoto(u, p, t) ==
    LET r == vote_photo(photos, votes, u, p, t)
    IN  /\ photos' = r.photos
        /\ votes' = r.votes
        /\ bucket' = bucket
        /\ last' = [NoOp EXCEPT
                      !.op = "vote", !.user_id = u, !.photo_id = p,
                      !.vote_type = t, !.raised = r.raised,
                      !.status = r.status, !.existing = r.existing,
                      !.up0 = r.up0, !.down0 = r.down0,
                      !.new_up = r.new_up, !.new_down = r.new_down,
                      !.result = r.result, !.vote = r.vote,
                      !.calls = r.calls]
        /\ SeqFrame

\* select * from photos where column = value order by created_at desc: the
\* ids of the rows, newest first (rows are created in the order of
\* PhotoIdSeq)
SelectPhotos(ph, column, value) ==
    LET newest == [i \in 1..Len(PhotoIdSeq) |->
                      PhotoIdSeq[Len(PhotoIdSeq) + 1 - i]]
        Hit(id) == id \in DOMAIN ph /\ ph[id][column] = value
    IN  SelectSeq(newest, Hit)

\* variant: the filter on user_id is missing
SelectViewerVotesAnyUser(vs, viewer, ids) ==
    {v \in vs : v.photo_id \in Range(ids)}

\* select photo_id, vote_type from votes where user_id = viewer and
\* photo_id in ids
SelectViewerVotes(vs, viewer, ids) ==
    {v \in vs : v.user_id = viewer /\ v.photo_id \in Range(ids)}

\* vote_map.get(id)
VoteMapGet(votes_data, id) ==
    IF \E v \in votes_data : v.photo_id = id
    THEN (CHOOSE v \in votes_data : v.photo_id = id).vote_type
    ELSE None

\* lines 123-143: the rows as PhotoResponse, user_vote set from the viewer's
\* votes when viewer_id and photos are both non-empty, null otherwise
Annotate(ph, vs, ids, viewer) ==
    LET annotated == Truthy(viewer) /\ ids /= <<>>
        votes_data == SelectViewerVotes(vs, viewer, ids)
    IN  [i \in 1..Len(ids) |->
            [id |-> ids[i],
             user_id |-> ph[ids[i]].user_id,
             location_name |-> ph[ids[i]].location_name,
             upvotes |-> ph[ids[i]].upvotes,
             downvotes |-> ph[ids[i]].downvotes,
             user_vote |-> IF annotated THEN VoteMapGet(votes_data, ids[i])
                           ELSE None]]

\* the store calls of a listing
ListCalls(ids, viewer) ==
    IF Truthy(viewer) /\ ids /= <<>>
    THEN <<"photos.select", "votes.select">>
    ELSE <<"photos.select">>

\* GET /locations/{location_name}/photos
GetLocationPhotos(l, viewer) ==
    LET ids == SelectPhotos(photos, "location_name", l)
    IN  /\ last' = [NoOp EXCEPT
                      !.op = "location_photos", !.location_name = l,
                      !.viewer_id = viewer, !.status = 200,
                      !.calls = ListCalls(ids, viewer),
                      !.body = Annotate(photos, votes, ids, viewer)]
        /\ UNCHANGED store
        /\ SeqFrame

\* GET /users/{user_id}/photos
GetUserPhotos(u, viewer) ==
    LET ids == SelectPhotos(photos, "user_id", u)
    IN  /\ last' = [NoOp EXCEPT
                      !.op = "user_photos", !.user_id = u,
                      !.viewer_id = viewer, !.status = 200,
                      !.calls = ListCalls(ids, viewer),
                      !.body = Annotate(photos, votes, ids, viewer)]
        /\ UNCHANGED store
        /\ SeqFrame

\* Spec: any vote_type; only the last request is remembered
ServeHealth == HealthCheck /\ prev' = prev

ServeUpload(u, l, f) == UploadPhoto(u, l, f) /\ prev' = prev

ServeVote(u, p, t) == VotePhoto(u, p, t) /\ prev' = prev

ServeLocationPhotos(l, viewer) == GetLocationPhotos(l, viewer) /\ prev' = prev

ServeUserPhotos(u, viewer) == GetUserPhotos(u, viewer) /\ prev' = prev

Next ==
    \/ ServeHealth
    \/ \E u \in Uploaders, l \in Locations, f \in Filenames :
           ServeUpload(u, l, f)
    \/ \E u \in Users, p \in PhotoIds \cup {MissingId}, t \in VoteTypes :
           ServeVote(u, p, t)

Spec == Init /\ [][Next]_vars

\* ListSpec: all five handlers, the documented vote types
ListNext ==
    \/ ServeHealth
    \/ \E u \in Uploaders, l \in Locations, f \in Filenames :
           ServeUpload(u, l, f)
    \/ \E u \in Users, p \in PhotoIds \cup {MissingId}, t \in DocVoteTypes :
           ServeVote(u, p, t)
    \/ \E l \in ListLocations, viewer \in Viewers :
           ServeLocationPhotos(l, viewer)
    \/ \E u \in Users, viewer \in Viewers : ServeUserPhotos(u, viewer)

ListSpec == Init /\ [][ListNext]_vars

\* FailSpec: the k-th call of vote_photo to the store raises

\* variant: the vote row written before the failure is restored
vote_photo_failing_Rollback(ph, vs, u, p, t, k) ==
    LET r == vote_photo(ph, vs, u, p, t)
    IN  [photos |-> ph, votes |-> vs,
         raised |-> 0, status |-> ExceptHandler(0),
         existing |-> IF k > 1 THEN r.existing ELSE None,
         up0 |-> IF k > 2 THEN r.up0 ELSE 0,
         down0 |-> IF k > 2 THEN r.down0 ELSE 0,
         failed |-> r.calls[k],
         calls |-> SubSeq(r.calls, 1, k)]

\* the calls before the k-th have taken effect, the k-th and the later ones
\* have not; the exception reaches the except clause of lines 265-267 and
\* nothing is undone
vote_photo_failing(ph, vs, u, p, t, k) ==
    LET r == vote_photo(ph, vs, u, p, t)
    IN  [photos |-> ph,
         votes |-> IF r.calls[k] = "photos.update" THEN r.votes ELSE vs,
         raised |-> 0, status |-> ExceptHandler(0),
         existing |-> IF k > 1 THEN r.existing ELSE None,
         up0 |-> IF k > 2 THEN r.up0 ELSE 0,
         down0 |-> IF k > 2 THEN r.down0 ELSE 0,
         failed |-> r.calls[k],
         calls |-> SubSeq(r.calls, 1, k)]

\* POST /vote, the k-th store call failing
VotePhotoFails(u, p, t, k) ==
    /\ nfail < MaxFail
    /\ k <= Len(vote_photo(photos, votes, u, p, t).calls)
    /\ LET r == vote_photo_failing(photos, votes, u, p, t, k)
       IN  /\ photos' = r.photos
           /\ votes' = r.votes
           /\ bucket' = bucket
           /\ last' = [NoOp EXCEPT
                         !.op = "vote", !.user_id = u, !.photo_id = p,
                         !.vote_type = t, !.raised = r.raised,
                         !.status = r.status, !.existing = r.existing,
                         !.up0 = r.up0, !.down0 = r.down0,
                         !.failed = r.failed, !.calls = r.calls]
    /\ nfail' = nfail + 1
    /\ prev' = prev
    /\ UNCHANGED Workers0

\* the photos voted on in FailSpec: the first one uploaded and a missing one
FailPhotoIds == {PhotoIdSeq[1], MissingId}

FailNext ==
    \/ \E u \in Uploaders, l \in Locations, f \in Filenames :
           ServeUpload(u, l, f)
    \/ \E u \in Users, p \in FailPhotoIds, t \in DocVoteTypes :
           ServeVote(u, p, t)
    \/ \E u \in Users, p \in FailPhotoIds, t \in DocVoteTypes, k \in 1..4 :
           VotePhotoFails(u, p, t, k)

FailSpec == Init /\ [][FailNext]_vars

\* ImmSpec: the immutable-vote policy of the earlier revisions
\* (specification, section 4.1): a vote is cast once and never changed

\* variant: the existing vote is not looked up
reconcile_immutable_NoLookup(ph, vs, u, p, t) ==
    IF p \notin DOMAIN ph
    THEN [photos |-> ph, votes |-> vs, raised |-> 404, status |-> 404,
          existing |-> ExistingVoteType(vs, u, p),
          up0 |-> 0, down0 |-> 0, new_up |-> 0, new_down |-> 0,
          result |-> "", vote |-> ""]
    ELSE LET c0 == Counters(ph, p)
             c  == Apply(t, c0)
         IN  [photos |-> UpdatePhoto(ph, p, c.up, c.down),
              votes |-> Upsert(vs, u, p, t),
              raised |-> 0, status |-> 200,
              existing |-> ExistingVoteType(vs, u, p),
              up0 |-> c0.up, down0 |-> c0.down,
              new_up |-> c.up, new_down |-> c.down,
              result |-> "success", vote |-> t]

reconcile_immutable(ph, vs, u, p, t) ==
    LET existing == ExistingVoteType(vs, u, p)
    IN  IF p \notin DOMAIN ph
        THEN \* NotFound, before any mutation
             [photos |-> ph, votes |-> vs, raised |-> 404, status |-> 404,
              existing |-> existing,
              up0 |-> 0, down0 |-> 0, new_up |-> 0, new_down |-> 0,
              result |-> "", vote |-> ""]
        ELSE LET c0 == Counters(ph, p)
                 c  == Apply(t, c0)
             IN  IF SelectVotes(vs, u, p) /= {}
                 THEN \* step 2: the current counters, unchanged, "ignored"
                      [photos |-> ph, votes |-> vs,
                       raised |-> 0, status |-> 200, existing |-> existing,
                       up0 |-> c0.up, down0 |-> c0.down,
                       new_up |-> c0.up, new_down |-> c0.down,
                       result |-> "ignored", vote |-> existing]
                 ELSE \* step 3: insert the vote, add 1 to its counter
                      [photos |-> UpdatePhoto(ph, p, c.up, c.down),
                       votes |-> vs \cup {[user_id |-> u, photo_id |-> p,
                                           vote_type |-> t]},
                       raised |-> 0, status |-> 200, existing |-> existing,
                       up0 |-> c0.up, down0 |-> c0.down,
                       new_up |-> c.up, new_down |-> c.down,
                       result |-> "success", vote |-> t]

\* a first vote is up or down; a later vote is of any type
ImmVote(u, p, t) ==
    LET r == reconcile_immutable(photos, votes, u, p, t)
    IN  /\ SelectVotes(votes, u, p) /= {} \/ t \in {"up", "down"}
        /\ photos' = r.photos
        /\ votes' = r.votes
        /\ bucket' = bucket
        /\ last' = [NoOp EXCEPT
                      !.op = "vote", !.user_id = u, !.photo_id = p,
                      !.vote_type = t, !.raised = r.raised,
                      !.status = r.status, !.existing = r.existing,
                      !.up0 = r.up0, !.down0 = r.down0,
                      !.new_up = r.new_up, !.new_down = r.new_down,
                      !.result = r.result, !.vote = r.vote]
        /\ prev' = prev
        /\ SeqFrame

ImmNext ==
    \/ \E u \in Uploaders, l \in Locations, f \in Filenames :
           ServeUpload(u, l, f)
    \/ \E u \in Users, p \in PhotoIds \cup {MissingId}, t \in VoteTypes :
           ImmVote(u, p, t)

ImmSpec == Init /\ [][ImmNext]_vars

\* HistSpec: the documented vote types; the last two requests are remembered
HistHealth == HealthCheck /\ prev' = last

HistUpload(u, l, f) == UploadPhoto(u, l, f) /\ prev' = last

HistVote(u, p, t) == VotePhoto(u, p, t) /\ prev' = last

HistNext ==
    \/ HistHealth
    \/ \E u \in Uploaders, l \in Locations, f \in Filenames :
           HistUpload(u, l, f)
    \/ \E u \in Users, p \in PhotoIds \cup {MissingId}, t \in DocVoteTypes :
           HistVote(u, p, t)

HistSpec == Init /\ [][HistNext]_vars

----------------------------------------------------------------------------
(* ConcSpec: two workers serve POST /vote; each call to the store is a step *)

\* upvotes and downvotes of p equal the numbers of its up and down vote rows
CountersMatch(ph, vs, p) ==
    /\ ph[p].upvotes =
           Cardinality({v \in vs : v.photo_id = p /\ v.vote_type = "up"})
    /\ ph[p].downvotes =
           Cardinality({v \in vs : v.photo_id = p /\ v.vote_type = "down"})

\* the votes of a store with one photo: at most one row per user
ConcVotes ==
    {{[user_id |-> u, photo_id |-> "p1", vote_type |-> f[u]] :
          u \in {x \in Users : f[x] /= None}} :
       f \in [Users -> {None, "up", "down"}]}

ConcInit ==
    /\ votes \in ConcVotes
    /\ photos = [q \in {"p1"} |->
                   [user_id |-> "u1", location_name |-> "The Pit",
                    upvotes |-> Cardinality({v \in votes : v.vote_type = "up"}),
                    downvotes |-> Cardinality({v \in votes : v.vote_type = "down"})]]
    /\ bucket = {1}
    /\ last = NoOp
    /\ prev = NoOp
    /\ IdleWorkers

ConcFrame == UNCHANGED <<bucket, last, prev, nfail>>

\* both workers stand between their reads and their writes, for the same
\* photo and different users, holding the same counters, which match the
\* votes, and the vote each of them read is still the stored one
BothReadNow(pcs, locs) ==
    /\ \A w \in Workers : pcs[w] = "write_vote"
    /\ \A w1, w2 \in Workers :
          /\ req[w1].photo_id = req[w2].photo_id
          /\ w1 /= w2 => req[w1].user_id /= req[w2].user_id
          /\ locs[w1].up = locs[w2].up
          /\ locs[w1].down = locs[w2].down
    /\ \A w \in Workers :
          /\ CountersMatch(photos, votes, req[w].photo_id)
          /\ locs[w].existing =
                 ExistingVoteType(votes, req[w].user_id, req[w].photo_id)

\* worker w reads, for the pair (u, p), the up or down vote the other worker
\* has read for the same pair and not yet written over, the counters
\* matching the votes and those the other worker holds, if it has read them
BothSawNow(w, u, p) ==
    /\ p \in DOMAIN photos
    /\ CountersMatch(photos, votes, p)
    /\ ExistingVoteType(votes, u, p) \in {"up", "down"}
    /\ \E o \in Workers \ {w} :
          /\ pc[o] \in {"read_photo", "write_vote"}
          /\ req[o].user_id = u
          /\ req[o].photo_id = p
          /\ loc[o].existing = ExistingVoteType(votes, u, p)
          /\ pc[o] = "write_vote"
                => /\ loc[o].up = photos[p].upvotes
                   /\ loc[o].down = photos[p].downvotes

\* lines 188-198: the request arrives and the existing vote is read
BeginVote(w, u, p, t) ==
    /\ pc[w] = "idle"
    /\ nreq < MaxReq
    /\ nreq' = nreq + 1
    /\ req' = [req EXCEPT ![w] = [user_id |-> u, photo_id |-> p, vote_type |-> t]]
    /\ loc' = [loc EXCEPT ![w] = [NoLoc EXCEPT
                                    !.existing = ExistingVoteType(votes, u, p)]]
    /\ pc' = [pc EXCEPT ![w] = "read_photo"]
    /\ bothRead' = FALSE
    /\ sawSame' = IF BothSawNow(w, u, p) THEN "both" ELSE "no"
    /\ UNCHANGED store
    /\ ConcFrame

\* lines 200-217: the counters are read, or the photo is missing
SelectPhoto(w) ==
    /\ pc[w] = "read_photo"
    /\ IF req[w].photo_id \notin DOMAIN photos
       THEN /\ loc' = [loc EXCEPT ![w].status = ExceptHandler(404)]
            /\ pc' = [pc EXCEPT ![w] = "idle"]
            /\ bothRead' = FALSE
            /\ sawSame' = sawSame
       ELSE /\ loc' = [loc EXCEPT
                         ![w].up = photos[req[w].photo_id].upvotes,
                         ![w].down = photos[req[w].photo_id].downvotes]
            /\ pc' = [pc EXCEPT ![w] = "write_vote"]
            /\ bothRead' = BothReadNow(pc', loc')
            /\ sawSame' = IF /\ sawSame = "both"
                             /\ \A o \in Workers \ {w} : pc[o] = "idle"
                          THEN "late" ELSE sawSame
    /\ UNCHANGED <<store, req, nreq>>
    /\ ConcFrame

\* lines 219-251: the new counters are computed and the vote row is written
StoreVote(w) ==
    /\ pc[w] = "write_vote"
    /\ LET c == Compute(req[w].vote_type, loc[w].existing,
                        [up |-> loc[w].up, down |-> loc[w].down])
       IN  loc' = [loc EXCEPT ![w].up = c.up, ![w].down = c.down]
    /\ votes' = WriteVote(votes, req[w].user_id, req[w].photo_id,
                          req[w].vote_type, loc[w].existing)
    /\ pc' = [pc EXCEPT ![w] = "update_photo"]
    /\ UNCHANGED <<photos, bucket, req, nreq, bothRead, sawSame>>
    /\ ConcFrame

\* lines 253-263: the counters are written and the response is returned
StoreCounters(w) ==
    /\ pc[w] = "update_photo"
    /\ photos' = UpdatePhoto(photos, req[w].photo_id, loc[w].up, loc[w].down)
    /\ loc' = [loc EXCEPT ![w].status = 200]
    /\ pc' = [pc EXCEPT ![w] = "idle"]
    /\ UNCHANGED <<votes, bucket, req, nreq, bothRead, sawSame>>
    /\ ConcFrame

ConcNext ==
    \/ \E w \in Workers, u \in Users, p \in {"p1", MissingId}, t \in VoteTypes :
           BeginVote(w, u, p, t)
    \/ \E w \in Workers : SelectPhoto(w)
    \/ \E w \in Workers : StoreVote(w)
    \/ \E w \in Workers : StoreCounters(w)

ConcSpec == ConcInit /\ [][ConcNext]_vars

----------------------------------------------------------------------------
(* Properties *)

VoteOk(r) == r.op = "vote" /\ r.status = 200

\* C1: served one at a time from a store whose counters match its votes,
\* every photo's upvotes is the number of its up vote rows and its downvotes
\* the number of its down vote rows.
CountersEqualVoteRecords ==
    \A p \in DOMAIN photos : CountersMatch(photos, votes, p)

\* a vote was switched while the other user's vote on the photo stands
CountersEqualVoteRecords_witness ==
    /\ VoteOk(last)
    /\ last.existing \in {"up", "down"}
    /\ last.vote_type \in {"up", "down", "none"} \ {last.existing}
    /\ Cardinality({v \in votes : v.photo_id = last.photo_id}) = 2

\* C2: a vote whose photo_id matches no photo row writes nothing, whatever
\* the vote_type and whether or not the pair already has a vote row.
NotFoundWritesNothing ==
    [][(last'.op = "vote" /\ last'.photo_id \notin DOMAIN photos)
          => UNCHANGED store]_vars

\* a vote on a missing photo by a user who has a vote row for it
NotFoundWritesNothing_witness ==
    /\ last.op = "vote"
    /\ last.photo_id \notin DOMAIN photos
    /\ last.existing = "up"
    /\ last.vote_type \in {"down", "none"}
    /\ ExistingVoteType(votes, last.user_id, last.photo_id) = "up"

\* C3: a vote whose photo_id matches no photo row is answered with a 4xx
\* status, distinguishable from the 5xx of a store failure.
NotFoundIsClientError ==
    (last.op = "vote" /\ last.raised = 404) => last.status \in 400..499

\* C4: switching a stored up to down, or down to up, in one vote takes 1 from
\* the old type's counter, adds 1 to the new type's counter and leaves
\* exactly one vote row for the pair, holding the new type.
SwitchLaw ==
    [][(/\ VoteOk(last')
        /\ <<last'.existing, last'.vote_type>> \in
               {<<"up", "down">>, <<"down", "up">>})
          => LET u == last'.user_id
                 p == last'.photo_id
                 d == IF last'.vote_type = "down" THEN 1 ELSE -1
             IN  /\ photos'[p].upvotes = photos[p].upvotes - d
                 /\ photos'[p].downvotes = photos[p].downvotes + d
                 /\ SelectVotes(votes', u, p) =
                        {[user_id |-> u, photo_id |-> p,
                          vote_type |-> last'.vote_type]}]_vars

SwitchLaw_witness ==
    /\ VoteOk(last)
    /\ last.existing = "down"
    /\ last.vote_type = "up"
    /\ last.new_down = last.down0 - 1

\* two votes in a row for the same pair
SamePair(a, b) ==
    /\ VoteOk(a)
    /\ b.op = "vote"
    /\ a.user_id = b.user_id
    /\ a.photo_id = b.photo_id

\* C5: for a user with no vote on a photo, voting up or down and then none,
\* with nothing in between, returns both counters to their values before the
\* first vote and leaves no vote row for the pair.
RevocationLaw ==
    (/\ SamePair(prev, last)
     /\ prev.existing = None
     /\ prev.vote_type \in {"up", "down"}
     /\ last.vote_type = "none")
        => /\ last.status = 200
           /\ photos[last.photo_id].upvotes = prev.up0
           /\ photos[last.photo_id].downvotes = prev.down0
           /\ last.new_up = prev.up0
           /\ last.new_down = prev.down0
           /\ SelectVotes(votes, last.user_id, last.photo_id) = {}

RevocationLaw_witness ==
    /\ SamePair(prev, last)
    /\ prev.existing = None
    /\ prev.vote_type = "down"
    /\ last.vote_type = "none"
    /\ prev.new_down = 2

\* C6: the same up or down vote submitted twice in a row leaves the counters
\* and the vote row after the second call as they were after the first.
Idempotence ==
    (/\ SamePair(prev, last)
     /\ prev.vote_type \in {"up", "down"}
     /\ last.vote_type = prev.vote_type)
        => /\ last.status = 200
           /\ last.new_up = prev.new_up
           /\ last.new_down = prev.new_down
           /\ photos[last.photo_id].upvotes = prev.new_up
           /\ photos[last.photo_id].downvotes = prev.new_down
           /\ last.existing = prev.vote_type
           /\ SelectVotes(votes, last.user_id, last.photo_id) =
                  {[user_id |-> last.user_id, photo_id |-> last.photo_id,
                    vote_type |-> prev.vote_type]}

Idempotence_witness ==
    /\ SamePair(prev, last)
    /\ prev.vote_type = "up"
    /\ last.vote_type = "up"
    /\ prev.existing = None
    /\ last.new_up = 1

\* C7: served one at a time from a store whose counters match its votes,
\* no counter of any photo is negative.
CountersNonNegative ==
    \A p \in DOMAIN photos : photos[p].upvotes >= 0 /\ photos[p].downvotes >= 0

\* the only up vote of a photo was revoked
CountersNonNegative_witness ==
    /\ VoteOk(last)
    /\ last.vote_type = "none"
    /\ last.existing = "up"
    /\ photos[last.photo_id].upvotes = 0

\* C8: under any interleaving of vote requests the votes table holds at most
\* one row for a (user_id, photo_id) pair.
OneVotePerPair ==
    \A v1, v2 \in votes :
        (v1.user_id = v2.user_id /\ v1.photo_id = v2.photo_id) => v1 = v2

\* both workers have written different votes for the same pair
OneVotePerPair_witness ==
    /\ \A w \in Workers : pc[w] = "update_photo"
    /\ req["w1"].user_id = req["w2"].user_id
    /\ req["w1"].photo_id = req["w2"].photo_id
    /\ {req["w1"].vote_type, req["w2"].vote_type} = {"up", "down"}
    /\ Cardinality(SelectVotes(votes, req["w1"].user_id, req["w1"].photo_id)) = 1

\* the vote of w changes the counters it read
Moves(w) ==
    LET c == [up |-> 0, down |-> 0]
    IN  Compute(req[w].vote_type, loc[w].existing, c) /= c

\* both workers have answered after reading the same counters
RaceOver ==
    /\ bothRead
    /\ \A w \in Workers : pc[w] = "idle" /\ loc[w].status = 200

\* C9: two votes by different users on the same photo that both read the
\* same counters before either writes, each changing a counter, leave the
\* photo's counters different from the counts of its vote rows.
LostUpdate ==
    (RaceOver /\ \A w \in Workers : Moves(w))
        => ~CountersMatch(photos, votes, req["w1"].photo_id)

\* both users voted up on a photo without votes and the counter is 1
LostUpdate_witness ==
    /\ RaceOver
    /\ \A w \in Workers : req[w].vote_type = "up" /\ loc[w].existing = None
    /\ photos["p1"].upvotes = 1
    /\ Cardinality({v \in votes : v.photo_id = "p1" /\ v.vote_type = "up"}) = 2

\* C10: an uploaded photo has upvotes = 0, downvotes = 0 and no vote rows,
\* and an up vote on a photo without vote rows yields upvotes = 1,
\* downvotes = 0 in the response and in the stored row.
FreshPhotoThenUp ==
    [][/\ (last'.op = "upload" /\ last'.status = 200)
            => LET id == last'.photo_id
               IN  /\ id \notin DOMAIN photos
                   /\ photos'[id].upvotes = 0
                   /\ photos'[id].downvotes = 0
                   /\ last'.new_up = 0
                   /\ last'.new_down = 0
                   /\ {v \in votes' : v.photo_id = id} = {}
       /\ (/\ VoteOk(last')
           /\ last'.vote_type = "up"
           /\ {v \in votes : v.photo_id = last'.photo_id} = {})
            => /\ last'.new_up = 1
               /\ last'.new_down = 0
               /\ photos'[last'.photo_id].upvotes = 1
               /\ photos'[last'.photo_id].downvotes = 0]_vars

\* u1 uploaded the photo and u2 cast the first vote on it
FreshPhotoThenUp_witness ==
    /\ VoteOk(last)
    /\ last.vote_type = "up"
    /\ last.user_id = "u2"
    /\ photos[last.photo_id].user_id = "u1"
    /\ last.up0 = 0 /\ last.down0 = 0
    /\ photos[last.photo_id].upvotes = 1
    /\ {v \in votes : v.photo_id = last.photo_id} =
           {[user_id |-> "u2", photo_id |-> last.photo_id, vote_type |-> "up"]}

\* C11: under the immutable-vote policy a user's first up vote on a photo
\* succeeds and adds 1 to upvotes, and a later vote of any type by the same
\* user on the same photo is answered "ignored" and leaves both counters and
\* the vote row unchanged.
ImmutableDuplicateIgnored ==
    [][(last'.op = "vote" /\ last'.photo_id \in DOMAIN photos)
          => LET u == last'.user_id
                 p == last'.photo_id
             IN  /\ (SelectVotes(votes, u, p) = {} /\ last'.vote_type = "up")
                      => /\ last'.status = 200
                         /\ last'.result = "success"
                         /\ photos'[p].upvotes = photos[p].upvotes + 1
                         /\ photos'[p].downvotes = photos[p].downvotes
                         /\ ExistingVoteType(votes', u, p) = "up"
                 /\ ExistingVoteType(votes, u, p) = "up"
                      => /\ last'.status = 200
                         /\ last'.result = "ignored"
                         /\ last'.new_up = photos[p].upvotes
                         /\ last'.new_down = photos[p].downvotes
                         /\ photos' = photos
                         /\ votes' = votes]_vars

\* a down vote after the user's up vote was ignored
ImmutableDuplicateIgnored_witness ==
    /\ last.op = "vote"
    /\ last.result = "ignored"
    /\ last.existing = "up"
    /\ last.vote_type = "down"
    /\ photos[last.photo_id].upvotes = 1
    /\ photos[last.photo_id].downvotes = 0

\* C12: an upload whose file has no filename is rejected with a 4xx status,
\* and no object is written to the bucket and no photo row is inserted.
MissingFilenameIsClientError ==
    [][(last'.op = "upload" /\ last'.raised = 400)
          => (last'.status \in 400..499 /\ UNCHANGED store)]_vars

\* the counter of photo p for vote type e, and the number of its e rows
CounterOf(p, e) == IF e = "up" THEN photos[p].upvotes ELSE photos[p].downvotes

RowsOf(p, e) == Cardinality({v \in votes : v.photo_id = p /\ v.vote_type = e})

\* both workers have answered votes that read the same stored vote of one
\* pair, the second reading the counters after the first had written them
DoubleUndoOver ==
    /\ sawSame = "late"
    /\ \A w \in Workers :
          /\ pc[w] = "idle"
          /\ loc[w].status = 200
          /\ req[w].vote_type /= loc[w].existing

\* C13: two votes for the same pair whose stored vote is up (or down), both
\* reading that vote before either removes it, the second reading the
\* counters the first wrote, undo the vote twice: the counter ends 1 below
\* the number of rows of that type, negative when none is left.
DoubleDecrement ==
    DoubleUndoOver
        => LET p == req["w1"].photo_id
               e == loc["w1"].existing
           IN  /\ CounterOf(p, e) = RowsOf(p, e) - 1
               /\ RowsOf(p, e) = 0 => CounterOf(p, e) < 0

\* the only up vote of the photo was revoked twice and upvotes is -1
DoubleDecrement_witness ==
    /\ DoubleUndoOver
    /\ \A w \in Workers : req[w].vote_type = "none" /\ loc[w].existing = "up"
    /\ photos["p1"].upvotes = -1
    /\ RowsOf("p1", "up") = 0

\* C14: a store failure at any call of a vote gives a 5xx and undoes
\* nothing: a failure before the photo update leaves the store as the calls
\* before it made it, and when the vote row was written and the photo update
\* fails, the row change stays and the counters keep their old values, so
\* that counters that matched the vote rows no longer do when the vote
\* changed the counts.
FailureUndoesNothing ==
    [][(last'.op = "vote" /\ last'.failed /= "")
          => LET u == last'.user_id
                 p == last'.photo_id
                 t == last'.vote_type
                 existing == ExistingVoteType(votes, u, p)
             IN  /\ last'.status \in 500..599
                 /\ photos' = photos
                 /\ last'.failed /= "photos.update" => votes' = votes
                 /\ last'.failed = "photos.update"
                      => /\ votes' = WriteVote(votes, u, p, t, existing)
                         /\ (/\ CountersMatch(photos, votes, p)
                             /\ Compute(t, existing, Counters(photos, p))
                                    /= Counters(photos, p))
                              => ~CountersMatch(photos', votes', p)]_vars

\* the up vote was stored and upvotes is still 0
FailureUndoesNothing_witness ==
    /\ last.op = "vote"
    /\ last.failed = "photos.update"
    /\ last.status = 500
    /\ last.vote_type = "up"
    /\ last.existing = None
    /\ ExistingVoteType(votes, last.user_id, last.photo_id) = "up"
    /\ photos[last.photo_id].upvotes = 0
    /\ ~CountersMatch(photos, votes, last.photo_id)

\* C15: whatever strings are sent as vote_type, every stored vote row has
\* type up or down.
StoredTypesUpOrDown ==
    \A v \in votes : v.vote_type \in {"up", "down"}

\* C16: a vote of type none by a user without a vote row on an existing
\* photo succeeds, issues no delete and leaves the vote rows and both
\* counters of the photo unchanged.
NoneWithoutVoteIsNoOp ==
    [][(/\ last'.op = "vote"
        /\ last'.vote_type = "none"
        /\ last'.photo_id \in DOMAIN photos
        /\ SelectVotes(votes, last'.user_id, last'.photo_id) = {})
          => /\ last'.status = 200
             /\ "votes.delete" \notin Range(last'.calls)
             /\ votes' = votes
             /\ photos' = photos
             /\ last'.new_up = photos[last'.photo_id].upvotes
             /\ last'.new_down = photos[last'.photo_id].downvotes]_vars

\* the other user's vote on the photo stands
NoneWithoutVoteIsNoOp_witness ==
    /\ VoteOk(last)
    /\ last.vote_type = "none"
    /\ last.existing = None
    /\ last.calls = <<"votes.select", "photos.select", "photos.update">>
    /\ photos[last.photo_id].downvotes = 1
    /\ Cardinality({v \in votes : v.photo_id = last.photo_id}) = 1

\* the vote type stored for the pair, none when there is no row
StoredVote(vs, u, p) ==
    IF SelectVotes(vs, u, p) = {} THEN "none" ELSE ExistingVoteType(vs, u, p)

\* C17: after a successful vote served alone, new_up and new_down of the
\* response are the stored counters and the returned vote is the stored
\* vote type of the pair, none when no row remains.
ResponseMatchesStore ==
    VoteOk(last)
        => /\ last.new_up = photos[last.photo_id].upvotes
           /\ last.new_down = photos[last.photo_id].downvotes
           /\ last.vote = StoredVote(votes, last.user_id, last.photo_id)

Listed(r) == r.op \in {"location_photos", "user_photos"} /\ r.status = 200

VoteAndReadFrame ==
    [][/\ last'.op = "vote"
            => /\ DOMAIN photos' = DOMAIN photos
               /\ \A q \in DOMAIN photos \ {last'.photo_id} :
                      photos'[q] = photos[q]
               /\ {v \in votes' : ~SameKey(v, last'.user_id, last'.photo_id)}
                      = {v \in votes : ~SameKey(v, last'.user_id, last'.photo_id)}
               /\ bucket' = bucket
       /\ last'.op \in {"health", "location_photos", "user_photos"}
            => UNCHANGED store]_vars

\* u1 revoked a vote on a photo while u2's vote on it and the votes on the
\* other photo stand
VoteAndReadFrame_witness ==
    /\ VoteOk(last)
    /\ last.vote_type = "none"
    /\ last.existing = "up"
    /\ \E v \in votes : v.photo_id = last.photo_id /\ v.user_id /= last.user_id
    /\ \E q \in DOMAIN photos \ {last.photo_id} :
           photos[q].upvotes + photos[q].downvotes = 2

====
